---- MODULE Spec2Model ----
(***************************************************************************)
(* The cacao yield estimation API: the request handlers of                 *)
(* src/api/detect.py (estimate_yield, detect) and src/api/yield_detect.py  *)
(* (detect_and_estimate), the start-up block of yield_detect.py that sets  *)
(* MODELS_LOADED, the two morphology scorers, the learned scorer and the   *)
(* confidence-weighted aggregation; several requests served at once by the *)
(* threaded server; and create_yolo_dataset of                             *)
(* src/convert_supervisely_to_yolo.py.                                     *)
(*                                                                         *)
(* Numbers.  Python floats are modelled as exact rationals <<n, d>> in     *)
(* lowest terms with d > 0; a decimal literal of the source (0.7, 0.33,    *)
(* 1.5) is the rational it denotes.  Detector coordinates are floats with  *)
(* a fractional part: they are kept in half pixels, so that int(x) of      *)
(* yield_detect.py is a truncation and not the identity.                   *)
(***************************************************************************)
EXTENDS Integers, Sequences, FiniteSets, Bags, TLC

VARIABLES
    variant,         \* which module serves: "detect.py" or "yield_detect.py"
    env,             \* what the start-up block of yield_detect.py finds on the host
    MODELS_LOADED,   \* yield_detect.py:166/170
    head,            \* state of ranking_model.fc: "unbound", "random", "trained"
    pc,              \* the request's step
    route,           \* the URL rule that matched
    req,             \* request.files['image']: "absent" or the kind of bytes
    img,             \* the local img: unbound, None, or an image of shape <<h, w>>
    boxes,           \* the detector's raw output, in its own order
    idx,             \* enumerate() position of the per-pod loop
    pod_detections,  \* the list the loop appends to
    scored_via,      \* per appended pod: the scorer's return line and what the forward pass did
    overall,         \* the aggregation's locals (overall_yield, avg_yield_score)
    response,        \* what the handler returned: status and JSON body
    decoderCalls,    \* number of cv2.imdecode calls of this request
    detectorCalls,   \* number of segmentation_model(...) calls of this request
    call,            \* a direct call of a pure function: its input and its result
    parked           \* the locals of the requests whose threads are not running: a bag

vars == <<variant, env, MODELS_LOADED, head, pc, route, req, img, boxes, idx,
          pod_detections, scored_via, overall, response, decoderCalls,
          detectorCalls, call, parked>>

(***************************************************************************)
(* Bounds of the model.                                                    *)
(***************************************************************************)
MaxBoxes == 2        \* longest detector output
MaxPods == 3         \* longest pod list handed to the aggregation directly

(***************************************************************************)
(* Exact rational arithmetic standing for Python float arithmetic.         *)
(***************************************************************************)
Abs(x) == IF x < 0 THEN -x ELSE x

gcd[p \in Nat \X Nat] == IF p[2] = 0 THEN p[1] ELSE gcd[<<p[2], p[1] % p[2]>>]

GCD(a, b) == gcd[<<a, b>>]

\* n / d in lowest terms (d > 0)
lowest[p \in Int \X Int] == <<p[1] \div GCD(Abs(p[1]), p[2]), p[2] \div GCD(Abs(p[1]), p[2])>>

R(n, d) == lowest[<<n, d>>]

Q == Int \X Int

radd[p \in Q \X Q] == R(p[1][1] * p[2][2] + p[2][1] * p[1][2], p[1][2] * p[2][2])
rsub[p \in Q \X Q] == R(p[1][1] * p[2][2] - p[2][1] * p[1][2], p[1][2] * p[2][2])
rmul[p \in Q \X Q] == R(p[1][1] * p[2][1], p[1][2] * p[2][2])
rdiv[p \in Q \X Q] == IF p[2][1] > 0 THEN R(p[1][1] * p[2][2], p[1][2] * p[2][1])
                                     ELSE R(-(p[1][1] * p[2][2]), p[1][2] * (-p[2][1]))
rlt[p \in Q \X Q] == p[1][1] * p[2][2] < p[2][1] * p[1][2]

RAdd(a, b) == radd[<<a, b>>]
RSub(a, b) == rsub[<<a, b>>]
RMul(a, b) == rmul[<<a, b>>]
RDiv(a, b) == rdiv[<<a, b>>]
RAbs(a) == R(Abs(a[1]), a[2])
RLt(a, b) == rlt[<<a, b>>]
RGt(a, b) == RLt(b, a)
RGe(a, b) == ~RLt(a, b)
RMin(a, b) == IF RLt(b, a) THEN b ELSE a

(***************************************************************************)
(* detect.py: estimate_yield_from_morphology(mask_area, aspect_ratio,      *)
(* perimeter).  mask_area is a pixel count, aspect_ratio a rational; the   *)
(* perimeter is accepted and not read.                                     *)
(***************************************************************************)
estimate_yield_from_morphology(mask_area, aspect_ratio, perimeter) ==
    LET area_score == RMin(R(mask_area, 50000), R(1, 1))
        shape_score == RSub(R(1, 1), RDiv(RAbs(RSub(aspect_ratio, R(3, 2))), R(2, 1)))
        fullness_score == RAdd(RMul(area_score, R(7, 10)), RMul(shape_score, R(3, 10)))
    IN  IF RGt(fullness_score, R(7, 10)) THEN <<"High", fullness_score>>
        ELSE IF RGt(fullness_score, R(4, 10)) THEN <<"Medium", fullness_score>>
        ELSE <<"Low", fullness_score>>

\* estimate_yield_fallback with the High cut inclusive
estimate_yield_fallback_inclusive(pod_image) ==
    LET r == estimate_yield_from_morphology(pod_image[1] * pod_image[2],
                 IF pod_image[1] > 0 THEN R(pod_image[2], pod_image[1]) ELSE R(1, 1), 0)
    IN  IF r[2] = R(7, 10) THEN <<"High", r[2]>> ELSE r

(***************************************************************************)
(* yield_detect.py: estimate_yield_fallback(pod_image).  pod_image is the  *)
(* crop, known here by its shape <<height, width>>.                        *)
(***************************************************************************)
estimate_yield_fallback(pod_image) ==
    LET height == pod_image[1]
        width == pod_image[2]
        area == height * width
        aspect_ratio == IF height > 0 THEN R(width, height) ELSE R(1, 1)
        area_score == RMin(R(area, 50000), R(1, 1))
        shape_score == RSub(R(1, 1), RDiv(RAbs(RSub(aspect_ratio, R(3, 2))), R(2, 1)))
        fullness_score == RAdd(RMul(area_score, R(7, 10)), RMul(shape_score, R(3, 10)))
    IN  IF RGt(fullness_score, R(7, 10)) THEN <<"High", fullness_score>>
        ELSE IF RGt(fullness_score, R(4, 10)) THEN <<"Medium", fullness_score>>
        ELSE <<"Low", fullness_score>>

\* estimate_yield_with_model with "<=" for "<" at the Low cut
estimate_yield_with_model_inclusive(pod_image, forward) ==
    IF ~MODELS_LOADED \/ forward.raises
    THEN LET r == estimate_yield_fallback(pod_image)
         IN  [category |-> r[1], score |-> r[2], line |-> IF MODELS_LOADED THEN 208 ELSE 184]
    ELSE [category |-> IF ~RGt(forward.score, R(33, 100)) THEN "Low"
                       ELSE IF RLt(forward.score, R(67, 100)) THEN "Medium"
                       ELSE "High",
          score |-> forward.score, line |-> 205]

(***************************************************************************)
(* yield_detect.py: estimate_yield_with_model(pod_image).  forward is what *)
(* the preprocessing and ranking_model(input_tensor) do on this call: they *)
(* raise, or sigmoid(logit).item() is forward.score.  The result carries,  *)
(* besides (category, score), the source line of the return statement that *)
(* produced it.                                                            *)
(***************************************************************************)
estimate_yield_with_model(pod_image, forward) ==
    IF ~MODELS_LOADED
    THEN LET r == estimate_yield_fallback(pod_image)
         IN  [category |-> r[1], score |-> r[2], line |-> 184]
    ELSE IF forward.raises
    THEN LET r == estimate_yield_fallback(pod_image)
         IN  [category |-> r[1], score |-> r[2], line |-> 208]
    ELSE LET score == forward.score
             category == IF RLt(score, R(33, 100)) THEN "Low"
                         ELSE IF RLt(score, R(67, 100)) THEN "Medium"
                         ELSE "High"
         IN  [category |-> category, score |-> score, line |-> 205]

(***************************************************************************)
(* The aggregation of both handlers: confidence-weighted mean of the       *)
(* ordinals, then the cut points.  The pods' confidences are positive, so  *)
(* total_weight is.                                                        *)
(***************************************************************************)
category_scores(c) == CASE c = "Low" -> 0 [] c = "Medium" -> 1 [] c = "High" -> 2

RECURSIVE total_weight(_)
total_weight(pods) ==
    IF pods = <<>> THEN R(0, 1)
    ELSE RAdd(Head(pods).confidence, total_weight(Tail(pods)))

RECURSIVE weighted_sum(_)
weighted_sum(pods) ==
    IF pods = <<>> THEN R(0, 1)
    ELSE RAdd(RMul(R(category_scores(Head(pods).yield_category), 1), Head(pods).confidence),
              weighted_sum(Tail(pods)))

weighted_score(pods) == RDiv(weighted_sum(pods), total_weight(pods))

\* overall_yield_estimate_yield with the Medium cut at 1.2
overall_yield_estimate_yield_cut_above_one(pods) ==
    IF RGe(weighted_score(pods), R(15, 10)) THEN "High"
    ELSE IF RGe(weighted_score(pods), R(12, 10)) THEN "Medium"
    ELSE "Low"

\* detect.py:132-137
overall_yield_estimate_yield(pods) ==
    IF RGe(weighted_score(pods), R(15, 10)) THEN "High"
    ELSE IF RGe(weighted_score(pods), R(8, 10)) THEN "Medium"
    ELSE "Low"

\* overall_yield_detect_and_estimate with the High cut exclusive
overall_yield_detect_and_estimate_exclusive(pods) ==
    IF RGt(weighted_score(pods), R(15, 10)) THEN "High"
    ELSE IF RGe(weighted_score(pods), R(75, 100)) THEN "Medium"
    ELSE "Low"

\* yield_detect.py:327-332
overall_yield_detect_and_estimate(pods) ==
    IF RGe(weighted_score(pods), R(15, 10)) THEN "High"
    ELSE IF RGe(weighted_score(pods), R(75, 100)) THEN "Medium"
    ELSE "Low"

RECURSIVE sum_yield_score(_)
sum_yield_score(pods) ==
    IF pods = <<>> THEN R(0, 1)
    ELSE RAdd(Head(pods).yield_score, sum_yield_score(Tail(pods)))

\* yield_detect.py:325
avg_yield_score(pods) == RDiv(sum_yield_score(pods), R(Len(pods), 1))

(***************************************************************************)
(* Start-up of yield_detect.py (lines 80-170).  e says what the block      *)
(* finds: whether timm imports, whether each checkpoint file exists,       *)
(* whether the ranking checkpoint holds 'ranking_head_state_dict', and     *)
(* whether loading the encoder or the ranking checkpoint raises.           *)
(***************************************************************************)
Host(timm, encoder, ranking, key, raises) ==
    [timm |-> timm, encoder |-> encoder, ranking |-> ranking, key |-> key, raises |-> raises]

\* a complete installation, and the installations with one thing wrong
Envs ==
    { Host(TRUE, TRUE, TRUE, TRUE, "no"),
      Host(FALSE, TRUE, TRUE, TRUE, "no"),           \* timm does not import
      Host(TRUE, FALSE, TRUE, TRUE, "no"),           \* no encoder checkpoint
      Host(TRUE, TRUE, FALSE, FALSE, "no"),          \* no ranking checkpoint
      Host(TRUE, TRUE, TRUE, FALSE, "no"),           \* ranking checkpoint without the key
      Host(TRUE, TRUE, TRUE, TRUE, "encoder"),       \* loading the encoder raises
      Host(TRUE, TRUE, TRUE, TRUE, "ranking") }      \* loading the ranking head raises

\* the hosts of the concurrent runs: a complete installation, and one
\* without the ranking checkpoint
ConcEnvs == {Host(TRUE, TRUE, TRUE, TRUE, "no"), Host(TRUE, TRUE, FALSE, FALSE, "no")}

\* detect.py loads no yield model
NoYieldModel == Host(FALSE, FALSE, FALSE, FALSE, "no")

load_yield_models(e) ==
    IF e.raises = "encoder"
    THEN [MODELS_LOADED |-> FALSE, head |-> "unbound"]          \* line 170, before line 152
    ELSE IF e.raises = "ranking"
    THEN [MODELS_LOADED |-> FALSE, head |-> "random"]           \* line 170, after line 152
    ELSE [MODELS_LOADED |-> e.timm /\ e.encoder /\ e.ranking,   \* line 166
          head |-> IF e.ranking /\ e.key THEN "trained" ELSE "random"]

(***************************************************************************)
(* The environment of a request: the upload, the decoder, the detector,    *)
(* the forward pass.                                                       *)
(***************************************************************************)
Variants == {"detect.py", "yield_detect.py"}

\* the POST rules of each app (detect.py:48,163; yield_detect.py:240)
Routes(v) == IF v = "detect.py" THEN {"/api/estimate-yield", "/api/detect"}
                                ELSE {"/api/detect"}

\* request.files['image']: no such field, or a field with these bytes
Uploads == {"absent", "valid", "corrupt", "empty"}

Unbound == [kind |-> "unbound", shape |-> <<0, 0>>]
NoneImg == [kind |-> "None", shape |-> <<0, 0>>]
Raised == [kind |-> "raise", shape |-> <<0, 0>>]

\* the photographs, by shape <<height, width>>
Images == {[kind |-> "image", shape |-> <<900, 1200>>]}

\* cv2.imdecode: an image for valid bytes, None for bytes that are no image;
\* on an empty buffer it returns None or raises cv2.error, by OpenCV version
imdecode(bytes) ==
    CASE bytes = "valid" -> Images
      [] bytes = "corrupt" -> {NoneImg}
      [] bytes = "empty" -> {NoneImg, Raised}

\* A detection: xyxy in half pixels, conf, and (segmentation mode) the pixel
\* count and contour length of its mask.
Box(x1, y1, x2, y2, conf, mask_area, perimeter) ==
    [x1 |-> x1, y1 |-> y1, x2 |-> x2, y2 |-> y2, conf |-> conf,
     mask_area |-> mask_area, perimeter |-> perimeter]

\* what segmentation_model returns to detect.py (conf >= 0.25)
SegDetections ==
    { Box(0, 0, 600, 400, R(3, 4), 50000, 900),      \* 300 x 200 px, full mask
      Box(20, 20, 80, 220, R(1, 4), 20000, 600),     \* 30 x 100 px
      Box(100, 100, 140, 140, R(2, 4), 300, 70),     \* 20 x 20 px
      Box(0, 0, 300, 200, R(4, 4), 20000, 500) }     \* 150 x 100 px

\* what segmentation_model returns to yield_detect.py (conf >= 0.5)
BoxDetections ==
    { Box(0, 0, 600, 400, R(3, 4), 0, 0),            \* 300 x 200 px
      Box(0, 0, 1400, 400, R(2, 4), 0, 0),           \* 700 x 200 px
      Box(0, 0, 98, 400, R(4, 4), 0, 0),             \* 49 x 200 px
      Box(1, 0, 100, 200, R(4, 4), 0, 0),            \* 49.5 x 100 px
      Box(2400, 0, 2600, 400, R(2, 4), 0, 0) }       \* beyond the right edge

Detections(v) == IF v = "detect.py" THEN SegDetections ELSE BoxDetections

SeqsUpTo(S, n) == UNION {[1..k -> S] : k \in 0..n}

\* the detector's outputs while several requests are in flight: none, one
\* box, or a box the size filter of yield_detect.py drops followed by one it keeps
ConcBoxes(v) ==
    IF v = "detect.py"
    THEN { <<>>,
           <<Box(20, 20, 80, 220, R(1, 4), 20000, 600)>>,
           <<Box(100, 100, 140, 140, R(2, 4), 300, 70),
             Box(0, 0, 300, 200, R(4, 4), 20000, 500)>> }
    ELSE { <<>>,
           <<Box(0, 0, 600, 400, R(3, 4), 0, 0)>>,
           <<Box(0, 0, 98, 400, R(4, 4), 0, 0),
             Box(0, 0, 1400, 400, R(2, 4), 0, 0)>> }

\* the detector raises, finds nothing (masks / boxes is None), or returns boxes
DetectorOutcomes(v) ==
    {[kind |-> "raise", boxes |-> <<>>], [kind |-> "None", boxes |-> <<>>]}
    \cup {[kind |-> "boxes", boxes |-> b] :
             b \in IF parked = EmptyBag THEN SeqsUpTo(Detections(v), MaxBoxes)
                                        ELSE ConcBoxes(v)}

\* one call of the preprocessing and the forward pass
ForwardOutcomes ==
    {[raises |-> TRUE, score |-> R(0, 1)]}
    \cup {[raises |-> FALSE, score |-> R(s, 100)] : s \in {32, 33, 66, 67}}

\* the forward pass was not run for this pod
NotCalled == [raises |-> FALSE, score |-> R(-1, 1)]

Max(a, b) == IF a > b THEN a ELSE b
Min(a, b) == IF a < b THEN a ELSE b

\* Python int() of a non-negative float held in half pixels
int(x) == x \div 2

min_box_size == 50
min_box_area == 2500

NoBody == [pending |-> TRUE]
NoResponse == [status |-> 0, body |-> NoBody]
NoOverall == [overall_yield |-> "unbound", avg_yield_score |-> R(0, 1)]
NoCall == [fn |-> "none", arg |-> <<>>, out |-> <<>>]

Terminal == {"Responded", "Errored"}

(***************************************************************************)
(* Init: the process has been started on a host and has not yet run its    *)
(* module-level code.                                                      *)
(***************************************************************************)
Init ==
    /\ variant \in Variants
    /\ env \in (IF variant = "yield_detect.py" THEN Envs ELSE {NoYieldModel})
    /\ MODELS_LOADED = FALSE
    /\ head = "unbound"
    /\ pc = "Startup"
    /\ route = "none"
    /\ req = "none"
    /\ img = Unbound
    /\ boxes = <<>>
    /\ idx = 0
    /\ pod_detections = <<>>
    /\ scored_via = <<>>
    /\ overall = NoOverall
    /\ response = NoResponse
    /\ decoderCalls = 0
    /\ detectorCalls = 0
    /\ call = NoCall
    /\ parked = EmptyBag

\* module-level code: yield_detect.py:80-170 (detect.py has no yield model)
Startup ==
    /\ pc = "Startup"
    /\ pc' = "Listening"
    /\ IF variant = "yield_detect.py"
       THEN /\ MODELS_LOADED' = load_yield_models(env).MODELS_LOADED
            /\ head' = load_yield_models(env).head
       ELSE UNCHANGED <<MODELS_LOADED, head>>
    /\ UNCHANGED <<variant, env, route, req, img, boxes, idx, pod_detections,
                   scored_via, overall, response, decoderCalls, detectorCalls, call, parked>>

\* Flask dispatches a POST to the handler
Receive ==
    /\ pc = "Listening"
    /\ \E u \in Uploads, rt \in Routes(variant) :
          /\ req' = u
          /\ route' = rt
    /\ pc' = "Received"
    /\ UNCHANGED <<variant, env, MODELS_LOADED, head, img, boxes, idx, pod_detections,
                   scored_via, overall, response, decoderCalls, detectorCalls, call, parked>>

\* the missing upload answered as an internal error
no_image_provided_as_500 == [status |-> 500, body |-> [error |-> "No image provided"]]

\* detect.py:53, yield_detect.py:245
no_image_provided == [status |-> 400, body |-> [error |-> "No image provided"]]

\* yield_detect.py:255
invalid_image == [status |-> 400, body |-> [error |-> "Invalid image"]]

\* the except clause: jsonify({'error': str(e)}), 500
internal_error(e) == [status |-> 500, body |-> [error |-> e]]

\* the exception leaves the handler: no JSON body is produced
Fail_escapes(resp) ==
    /\ response' = response
    /\ pc' = "Errored"

\* the error response carries the pods scored so far
Fail_with_pods(resp) ==
    /\ response' = [status |-> resp.status,
                    body |-> [error |-> resp.body.error, pods |-> pod_detections]]
    /\ pc' = "Errored"

\* the handler returns an error response
Fail(resp) ==
    /\ response' = resp
    /\ pc' = "Errored"

\* detect.py:52-63, yield_detect.py:244-257
Decode ==
    /\ pc = "Received"
    /\ IF req = "absent"
       THEN /\ Fail(no_image_provided)
            /\ UNCHANGED <<img, decoderCalls>>
       ELSE /\ decoderCalls' = decoderCalls + 1
            /\ \E out \in imdecode(req) :
                  /\ img' = out
                  /\ IF out.kind = "raise"
                     THEN Fail(internal_error("cv2.error"))
                     ELSE IF out.kind = "None"
                     THEN IF variant = "yield_detect.py"
                          THEN Fail(invalid_image)
                          ELSE Fail(internal_error("'NoneType' object has no attribute 'shape'"))
                     ELSE /\ pc' = "Decoded"
                          /\ UNCHANGED response
    /\ UNCHANGED <<variant, env, MODELS_LOADED, head, route, req, boxes, idx,
                   pod_detections, scored_via, overall, detectorCalls, call, parked>>

\* detect.py:66-81, yield_detect.py:261-274
Detect ==
    /\ pc = "Decoded"
    /\ detectorCalls' = detectorCalls + 1
    /\ \E out \in DetectorOutcomes(variant) :
          IF out.kind = "raise"
          THEN /\ Fail(internal_error("inference error"))
               /\ UNCHANGED boxes
          ELSE /\ boxes' = out.boxes
               /\ pc' = "Detected"
               /\ UNCHANGED response
    /\ UNCHANGED <<variant, env, MODELS_LOADED, head, route, req, img, idx,
                   pod_detections, scored_via, overall, decoderCalls, call, parked>>

(***************************************************************************)
(* One iteration of the per-pod loop.                                      *)
(***************************************************************************)
\* pod_estimate_yield with every pod_id 0
pod_estimate_yield_id_zero(i, box) ==
    LET width == box.x2 - box.x1
        height == box.y2 - box.y1
        aspect_ratio == IF height > 0 THEN R(width, height) ELSE R(1, 1)
        r == estimate_yield_from_morphology(box.mask_area, aspect_ratio, box.perimeter)
    IN  [pod_id |-> 0,
         bbox |-> <<R(box.x1, 2), R(box.y1, 2), R(box.x2, 2), R(box.y2, 2)>>,
         confidence |-> box.conf,
         yield_category |-> r[1],
         yield_score |-> r[2],
         morphology |-> [area |-> box.mask_area, aspect_ratio |-> aspect_ratio,
                         perimeter |-> box.perimeter]]

\* detect.py:84-119: every mask is scored and appended
pod_estimate_yield(i, box) ==
    LET width == box.x2 - box.x1
        height == box.y2 - box.y1
        aspect_ratio == IF height > 0 THEN R(width, height) ELSE R(1, 1)
        r == estimate_yield_from_morphology(box.mask_area, aspect_ratio, box.perimeter)
    IN  [pod_id |-> i,
         bbox |-> <<R(box.x1, 2), R(box.y1, 2), R(box.x2, 2), R(box.y2, 2)>>,
         confidence |-> box.conf,
         yield_category |-> r[1],
         yield_score |-> r[2],
         morphology |-> [area |-> box.mask_area, aspect_ratio |-> aspect_ratio,
                         perimeter |-> box.perimeter]]

\* the size filter with "and" for "or"
too_small_all(box_width, box_height, box_area) ==
    box_width < min_box_size /\ box_height < min_box_size /\ box_area < min_box_area

\* yield_detect.py:290
too_small(box_width, box_height, box_area) ==
    box_width < min_box_size \/ box_height < min_box_size \/ box_area < min_box_area

\* yield_detect.py:295-296: the shape of img[max(0,y1):min(orig_height,y2),
\*                                          max(0,x1):min(orig_width,x2)]
crop_shape(shape, x1, y1, x2, y2) ==
    <<Max(0, Min(shape[1], y2) - Max(0, y1)), Max(0, Min(shape[2], x2) - Max(0, x1))>>

\* yield_detect.py:279-312: skip (keep = FALSE) or the appended entry
pod_detect_and_estimate(i, box, forward) ==
    LET x1 == int(box.x1)
        y1 == int(box.y1)
        x2 == int(box.x2)
        y2 == int(box.y2)
        box_width == x2 - x1
        box_height == y2 - y1
        box_area == box_width * box_height
        pod_crop == crop_shape(img.shape, x1, y1, x2, y2)
        r == estimate_yield_with_model(pod_crop, forward)
    IN  IF too_small(box_width, box_height, box_area)
        THEN [keep |-> FALSE, line |-> 292]
        ELSE IF pod_crop[1] * pod_crop[2] * 3 = 0
        THEN [keep |-> FALSE, line |-> 299]
        ELSE [keep |-> TRUE, line |-> r.line,
              pod |-> [pod_id |-> i,
                       bbox |-> <<R(x1, 1), R(y1, 1), R(x2, 1), R(y2, 1)>>,
                       confidence |-> box.conf,
                       yield_category |-> r.category,
                       yield_score |-> r.score]]

\* detect.py:83-119, yield_detect.py:278-312.  fault: a call of the iteration
\* outside the scorer's own try raises (cv2.resize, cv2.findContours, int()).
ScorePod ==
    /\ pc \in {"Detected", "PerPodScored"}
    /\ idx < Len(boxes)
    /\ \E fault \in BOOLEAN, forward \in ForwardOutcomes :
          IF fault
          THEN /\ Fail(internal_error("exception in the loop"))
               /\ UNCHANGED <<idx, pod_detections, scored_via>>
          ELSE /\ idx' = idx + 1
               /\ UNCHANGED response
               /\ IF variant = "detect.py"
                  THEN /\ pod_detections' =
                              Append(pod_detections, pod_estimate_yield(idx, boxes[idx + 1]))
                       /\ scored_via' = Append(scored_via, [line |-> 104, forward |-> NotCalled])
                       /\ pc' = "PerPodScored"
                  ELSE LET it == pod_detect_and_estimate(idx, boxes[idx + 1], forward)
                       IN  IF it.keep
                           THEN /\ pod_detections' = Append(pod_detections, it.pod)
                                /\ scored_via' =
                                      Append(scored_via,
                                             [line |-> it.line,
                                              forward |-> IF it.line = 184 THEN NotCalled
                                                          ELSE forward])
                                /\ pc' = "PerPodScored"
                           ELSE UNCHANGED <<pod_detections, scored_via, pc>>
    /\ UNCHANGED <<variant, env, MODELS_LOADED, head, route, req, img, boxes,
                   overall, decoderCalls, detectorCalls, call, parked>>

\* detect.py:122-137, yield_detect.py:315-332
Aggregate ==
    /\ pc \in {"Detected", "PerPodScored"}
    /\ idx = Len(boxes)
    /\ overall' =
          IF pod_detections = <<>> THEN NoOverall
          ELSE IF variant = "detect.py"
          THEN [overall_yield |-> overall_yield_estimate_yield(pod_detections),
                avg_yield_score |-> R(0, 1)]
          ELSE [overall_yield |-> overall_yield_detect_and_estimate(pod_detections),
                avg_yield_score |-> avg_yield_score(pod_detections)]
    /\ pc' = "Aggregated"
    /\ UNCHANGED <<variant, env, MODELS_LOADED, head, route, req, img, boxes, idx,
                   pod_detections, scored_via, response, decoderCalls, detectorCalls, call, parked>>

\* detect.py:139-156
response_estimate_yield(pods, ov, shape) ==
    IF pods # <<>>
    THEN [success |-> TRUE,
          overall_yield |-> ov.overall_yield,
          pod_count |-> Len(pods),
          pods |-> pods,
          image_width |-> shape[2],
          image_height |-> shape[1]]
    ELSE [success |-> FALSE,
          message |-> "No cacao pods detected",
          overall_yield |-> "None",
          pod_count |-> 0,
          pods |-> <<>>,
          image_width |-> shape[2],
          image_height |-> shape[1]]

\* yield_detect.py:336-359
response_detect_and_estimate(pods, ov, shape) ==
    IF pods # <<>>
    THEN [success |-> TRUE,
          overall_yield |-> ov.overall_yield,
          overall_yield_score |-> ov.avg_yield_score,
          pod_count |-> Len(pods),
          pods |-> pods,
          image_width |-> shape[2],
          image_height |-> shape[1],
          model_used |-> IF MODELS_LOADED THEN "trained_ml" ELSE "morphology",
          thresholds |-> [low |-> R(33, 100), medium |-> R(67, 100)]]
    ELSE [success |-> FALSE,
          message |-> "No cacao pods detected",
          overall_yield |-> "None",
          pod_count |-> 0,
          pods |-> <<>>,
          image_width |-> shape[2],
          image_height |-> shape[1]]

\* return jsonify({...}) of the try block: HTTP 200
Respond ==
    /\ pc = "Aggregated"
    /\ response' =
          [status |-> 200,
           body |-> IF variant = "detect.py"
                    THEN response_estimate_yield(pod_detections, overall, img.shape)
                    ELSE response_detect_and_estimate(pod_detections, overall, img.shape)]
    /\ pc' = "Responded"
    /\ UNCHANGED <<variant, env, MODELS_LOADED, head, route, req, img, boxes, idx,
                   pod_detections, scored_via, overall, decoderCalls, detectorCalls, call, parked>>

Next == Startup \/ Receive \/ Decode \/ Detect \/ ScorePod \/ Aggregate \/ Respond

Spec == Init /\ [][Next]_vars

(***************************************************************************)
(* Direct calls of the pure functions: the morphology scorers and the      *)
(* aggregation, on inputs drawn from bounded sets.                         *)
(***************************************************************************)
Idle ==
    /\ variant = "detect.py"
    /\ env = NoYieldModel
    /\ MODELS_LOADED = FALSE
    /\ head = "unbound"
    /\ pc = "Startup"
    /\ route = "none"
    /\ req = "none"
    /\ img = Unbound
    /\ boxes = <<>>
    /\ idx = 0
    /\ pod_detections = <<>>
    /\ scored_via = <<>>
    /\ overall = NoOverall
    /\ response = NoResponse
    /\ decoderCalls = 0
    /\ detectorCalls = 0
    /\ parked = EmptyBag

handlerVars == <<variant, env, MODELS_LOADED, head, pc, route, req, img, boxes, idx,
                 pod_detections, scored_via, overall, response, decoderCalls,
                 detectorCalls, parked>>

\* box width and height in pixels, mask pixel count, contour length
MorphInputs ==
    [width : {30, 50, 100, 150, 300, 699, 700, 701, 1100},
     height : {0, 50, 100, 200},
     mask_area : {0, 20000, 35000, 50000, 60000},
     perimeter : {0, 500}]

MorphInit ==
    /\ Idle
    /\ call \in {[fn |-> "input", arg |-> a, out |-> <<>>] : a \in MorphInputs}

\* detect.py:91-93 and 104-106 on a box of the given width and height
CallMorphology ==
    /\ call.fn = "input"
    /\ LET a == call.arg
           pod == pod_estimate_yield(0, Box(0, 0, a.width, a.height, R(1, 1),
                                            a.mask_area, a.perimeter))
       IN  call' = [fn |-> "estimate_yield_from_morphology", arg |-> a,
                    out |-> <<pod.yield_category, pod.yield_score>>]
    /\ UNCHANGED handlerVars

\* yield_detect.py:210-228 on a crop of shape (height, width)
CallFallback ==
    /\ call.fn = "input"
    /\ LET a == call.arg
       IN  call' = [fn |-> "estimate_yield_fallback", arg |-> a,
                    out |-> estimate_yield_fallback(<<a.height, a.width>>)]
    /\ UNCHANGED handlerVars

MorphNext == CallMorphology \/ CallFallback

MorphSpec == MorphInit /\ [][MorphNext]_vars

\* pods as the aggregation reads them: a category and a confidence in (0, 1]
AggPods ==
    [yield_category : {"Low", "Medium", "High"},
     confidence : {R(1, 4), R(2, 4), R(3, 4), R(4, 4)}]

AggInit ==
    /\ Idle
    /\ call \in {[fn |-> "input", arg |-> p, out |-> <<>>] :
                    p \in SeqsUpTo(AggPods, MaxPods) \ {<<>>}}

\* detect.py:122-137 on a non-empty pod list
CallAggregateEstimateYield ==
    /\ call.fn = "input"
    /\ call' = [fn |-> "estimate_yield", arg |-> call.arg,
                out |-> overall_yield_estimate_yield(call.arg)]
    /\ UNCHANGED handlerVars

\* yield_detect.py:315-332 on a non-empty pod list
CallAggregateDetectAndEstimate ==
    /\ call.fn = "input"
    /\ call' = [fn |-> "detect_and_estimate", arg |-> call.arg,
                out |-> overall_yield_detect_and_estimate(call.arg)]
    /\ UNCHANGED handlerVars

AggNext == CallAggregateEstimateYield \/ CallAggregateDetectAndEstimate

AggSpec == AggInit /\ [][AggNext]_vars

(***************************************************************************)
(* Concurrent requests.  app.run(host, port, debug=False) starts the       *)
(* threaded development server: every request runs the handler in a thread *)
(* of its own.  The handler's names (img, results, pod_detections, ...)    *)
(* are locals of its call frame and request.files is Flask's context-local *)
(* proxy; the module-level names (segmentation_model, ranking_model,       *)
(* MODELS_LOADED, the paths and the transform) are shared by all threads.  *)
(* The variables pc .. detectorCalls are the frame of the running thread;  *)
(* parked holds the frames of the others, and Switch is the interpreter    *)
(* handing the processor to one of them, between any two steps.            *)
(***************************************************************************)
MaxRequests == 2     \* requests in flight at once

\* the call frame of the running thread
frame ==
    [pc |-> pc, route |-> route, req |-> req, img |-> img, boxes |-> boxes, idx |-> idx,
     pod_detections |-> pod_detections, scored_via |-> scored_via, overall |-> overall,
     response |-> response, decoderCalls |-> decoderCalls, detectorCalls |-> detectorCalls]

\* a worker thread that has not been handed a request yet
Waiting ==
    [pc |-> "Listening", route |-> "none", req |-> "none", img |-> Unbound, boxes |-> <<>>,
     idx |-> 0, pod_detections |-> <<>>, scored_via |-> <<>>, overall |-> NoOverall,
     response |-> NoResponse, decoderCalls |-> 0, detectorCalls |-> 0]

RECURSIVE Copies(_, _)
Copies(f, n) == IF n = 0 THEN EmptyBag ELSE SetToBag({f}) (+) Copies(f, n - 1)

ConcInit ==
    /\ variant \in Variants
    /\ env \in (IF variant = "yield_detect.py" THEN ConcEnvs ELSE {NoYieldModel})
    /\ MODELS_LOADED = FALSE
    /\ head = "unbound"
    /\ pc = "Startup"
    /\ route = "none"
    /\ req = "none"
    /\ img = Unbound
    /\ boxes = <<>>
    /\ idx = 0
    /\ pod_detections = <<>>
    /\ scored_via = <<>>
    /\ overall = NoOverall
    /\ response = NoResponse
    /\ decoderCalls = 0
    /\ detectorCalls = 0
    /\ call = NoCall
    /\ parked = Copies(Waiting, MaxRequests - 1)

\* the thread resumed with a pod list that is one module-level list
Resume_shared_pods(f) ==
    /\ pc' = f.pc
    /\ route' = f.route
    /\ req' = f.req
    /\ img' = f.img
    /\ boxes' = f.boxes
    /\ idx' = f.idx
    /\ pod_detections' = pod_detections
    /\ scored_via' = scored_via
    /\ overall' = f.overall
    /\ response' = f.response
    /\ decoderCalls' = f.decoderCalls
    /\ detectorCalls' = f.detectorCalls

\* the thread of frame f runs on: its locals are its own
Resume(f) ==
    /\ pc' = f.pc
    /\ route' = f.route
    /\ req' = f.req
    /\ img' = f.img
    /\ boxes' = f.boxes
    /\ idx' = f.idx
    /\ pod_detections' = f.pod_detections
    /\ scored_via' = f.scored_via
    /\ overall' = f.overall
    /\ response' = f.response
    /\ decoderCalls' = f.decoderCalls
    /\ detectorCalls' = f.detectorCalls

\* a thread switch; no request is served before the module-level code ran
Switch ==
    /\ pc # "Startup"
    /\ \E f \in BagToSet(parked) :
          /\ f # frame
          /\ parked' = (parked (-) SetToBag({f})) (+) SetToBag({frame})
          /\ Resume(f)
    /\ UNCHANGED <<variant, env, MODELS_LOADED, head, call>>

ConcNext == Startup \/ Receive \/ Decode \/ Detect \/ ScorePod \/ Aggregate \/ Respond \/ Switch

ConcSpec == ConcInit /\ [][ConcNext]_vars

(***************************************************************************)
(* src/convert_supervisely_to_yolo.py: create_yolo_dataset().  A run is    *)
(* held in the variable call: arg is what is on disk under SOURCE_DIR,     *)
(* out is the run's locals and what it has written under OUTPUT_DIR.       *)
(* File names are numbers, in the order sorted() gives the names.          *)
(***************************************************************************)
MaxImages == 10      \* most .jpg files in SOURCE_DIR/img

TRAIN_RATIO == R(80, 100)
VAL_RATIO == R(10, 100)

\* Python int() of a non-negative float
int_of(q) == q[1] \div q[2]

\* the content of SOURCE_DIR/ann/<name>.json, by file name: a pattern of
\* kinds repeated over the names.  "absent": no such file; "objects": objects
\* of known classes; "empty": no object; "unknown class": only objects that
\* process_annotation skips; "malformed": json.load or ['size'] raises
AnnotationPatterns ==
    { <<"objects">>,
      <<"objects", "absent", "empty">>,
      <<"absent", "unknown class", "objects", "empty">>,
      <<"objects", "objects", "empty", "absent", "objects", "malformed">> }

Annotation(pattern, f) == pattern[((f - 1) % Len(pattern)) + 1]

\* os.listdir(img_dir): n .jpg files and, possibly, an entry that is no .jpg
Listing(n, other) ==
    {[name |-> f, jpg |-> TRUE] : f \in 1..n}
    \cup (IF other THEN {[name |-> 0, jpg |-> FALSE]} ELSE {})

SourceDirs ==
    [n : 0..MaxImages, other : BOOLEAN, pattern : AnnotationPatterns]

\* line 86: sorted([f for f in os.listdir(img_dir) if f.endswith('.jpg')])
sorted_jpgs(listing) ==
    LET S == {e.name : e \in {d \in listing : d.jpg}}
    IN  [i \in 1..Cardinality(S) |-> CHOOSE f \in S : Cardinality({g \in S : g < f}) = i - 1]

Rotate(s, k) == [i \in 1..Len(s) |-> s[((i - 1 + k) % Len(s)) + 1]]
Reverse(s) == [i \in 1..Len(s) |-> s[Len(s) + 1 - i]]

\* lines 91-92: random.seed(42); random.shuffle(image_files).  The result is
\* a permutation of the list; the one the generator yields is not computed:
\* the rotations of the list and of its reversal stand for it.
shuffle(s) ==
    IF Len(s) <= 1 THEN {s}
    ELSE {Rotate(s, k) : k \in 1..(Len(s) - 1)} \cup {Rotate(Reverse(s), k) : k \in 0..(Len(s) - 1)}

\* line 96
train_end(total) == int_of(RMul(R(total, 1), TRAIN_RATIO))

\* val_end without the offset train_end
val_end_without_offset(total) == int_of(RMul(R(total, 1), VAL_RATIO))

\* line 97
val_end(total) == train_end(total) + int_of(RMul(R(total, 1), VAL_RATIO))

\* Python s[a:b], 0 <= a
Slice(s, a, b) == SubSeq(s, a + 1, Min(b, Len(s)))

\* lines 100-102
train_files(image_files) == Slice(image_files, 0, train_end(Len(image_files)))
val_files(image_files) ==
    Slice(image_files, train_end(Len(image_files)), val_end(Len(image_files)))
test_files(image_files) == Slice(image_files, val_end(Len(image_files)), Len(image_files))

NotRun ==
    [at |-> "start", image_files |-> <<>>, train |-> <<>>, val |-> <<>>, test |-> <<>>,
     done |-> 0, images |-> {}, labels |-> {}]

DatasetInit ==
    /\ Idle
    /\ call \in {[fn |-> "create_yolo_dataset", arg |-> d, out |-> NotRun] : d \in SourceDirs}

\* lines 86-102: list, sort, shuffle, split
SplitFiles ==
    /\ call.fn = "create_yolo_dataset"
    /\ call.out.at = "start"
    /\ \E shuffled \in shuffle(sorted_jpgs(Listing(call.arg.n, call.arg.other))) :
          call' = [call EXCEPT !.out = [at |-> "copy",
                                        image_files |-> shuffled,
                                        train |-> train_files(shuffled),
                                        val |-> val_files(shuffled),
                                        test |-> test_files(shuffled),
                                        done |-> 0,
                                        images |-> {},
                                        labels |-> {}]]
    /\ UNCHANGED handlerVars

\* lines 107-118: the (split_name, img_file) pairs in the order the two loops
\* visit them
work(o) ==
    [i \in 1..Len(o.train) |-> <<"train", o.train[i]>>]
    \o [i \in 1..Len(o.val) |-> <<"val", o.val[i]>>]
    \o [i \in 1..Len(o.test) |-> <<"test", o.test[i]>>]

\* lines 118-150: one image: copy it, then convert its annotation if there is one
ProcessImage ==
    /\ call.fn = "create_yolo_dataset"
    /\ call.out.at = "copy"
    /\ call.out.done < Len(work(call.out))
    /\ LET o == call.out
           item == work(o)[o.done + 1]
           kind == Annotation(call.arg.pattern, item[2])
       IN  call' = [call EXCEPT !.out =
                       [o EXCEPT !.images = o.images \cup {item},
                                 !.labels =
                                     CASE kind = "objects" -> o.labels \cup {<<item[1], item[2], "lines">>}
                                       [] kind \in {"empty", "unknown class"} ->
                                              o.labels \cup {<<item[1], item[2], "empty">>}
                                       [] OTHER -> o.labels,
                                 !.done = IF kind = "malformed" THEN o.done ELSE o.done + 1,
                                 !.at = IF kind = "malformed" THEN "raised" ELSE "copy"]]
    /\ UNCHANGED handlerVars

\* lines 152-196: data.yaml, the statistics, return OUTPUT_DIR
WriteYaml ==
    /\ call.fn = "create_yolo_dataset"
    /\ call.out.at = "copy"
    /\ call.out.done = Len(work(call.out))
    /\ call' = [call EXCEPT !.out.at = "returned"]
    /\ UNCHANGED handlerVars

DatasetNext == SplitFiles \/ ProcessImage \/ WriteYaml

DatasetSpec == DatasetInit /\ [][DatasetNext]_vars

(***************************************************************************)
(* The claims.                                                             *)
(***************************************************************************)
ErrorOnly == DOMAIN response.body = {"error"}

\* C1: on every image-accepting POST endpoint, an upload whose bytes the
\* decoder cannot decode (it returns no image) is answered with HTTP 400 and
\* a JSON error body, never with HTTP 500.
C1_UndecodableIs400 ==
    (pc \in Terminal /\ img.kind = "None") => (response.status = 400 /\ ErrorOnly)

\* the detector's box, as it reported it: below 50 px wide or high, or below
\* 2500 px^2 (coordinates are in half pixels)
RawTooSmall(b) ==
    \/ b.x2 - b.x1 < 100
    \/ b.y2 - b.y1 < 100
    \/ (b.x2 - b.x1) * (b.y2 - b.y1) < 10000

\* C2: in every yield-mode endpoint a detector box narrower than 50 px, lower
\* than 50 px or smaller than 2500 px^2 never appears in pods[] and is not
\* counted in pod_count.
C2_SmallBoxesDropped ==
    pc = "Responded" =>
        /\ \A i \in 1..Len(response.body.pods) :
              ~RawTooSmall(boxes[response.body.pods[i].pod_id + 1])
        /\ response.body.pod_count
              <= Cardinality({k \in 1..Len(boxes) : ~RawTooSmall(boxes[k])})

\* the confidence in quarters, and W = WNum / WDen
ConfQ(c) == (c[1] * 4) \div c[2]

RECURSIVE WNum(_)
WNum(pods) ==
    IF pods = <<>> THEN 0
    ELSE (CASE Head(pods).yield_category = "Low" -> 0
            [] Head(pods).yield_category = "Medium" -> ConfQ(Head(pods).confidence)
            [] Head(pods).yield_category = "High" -> 2 * ConfQ(Head(pods).confidence))
         + WNum(Tail(pods))

RECURSIVE WDen(_)
WDen(pods) ==
    IF pods = <<>> THEN 0 ELSE ConfQ(Head(pods).confidence) + WDen(Tail(pods))

Aggregated == call.fn \in {"estimate_yield", "detect_and_estimate"}

\* C3 as stated: in every yield-mode endpoint overall_yield is High iff
\* W >= 1.5, Medium iff 0.75 <= W < 1.5 and Low iff W < 0.75.
C3_OriginalCuts ==
    Aggregated =>
        LET n == WNum(call.arg)
            d == WDen(call.arg)
        IN  /\ call.out = "High" <=> 2 * n >= 3 * d
            /\ call.out = "Medium" <=> (4 * n >= 3 * d /\ 2 * n < 3 * d)
            /\ call.out = "Low" <=> 4 * n < 3 * d

\* C3 as amended: overall_yield is High iff W >= 1.5 in both endpoints; in
\* yield_detect.py it is Medium iff 0.75 <= W < 1.5 and Low iff W < 0.75; in
\* detect.py it is Medium iff 0.8 <= W < 1.5 and Low iff W < 0.8.
C3_AmendedCuts ==
    Aggregated =>
        LET n == WNum(call.arg)
            d == WDen(call.arg)
            medium == IF call.fn = "detect_and_estimate" THEN 4 * n >= 3 * d
                                                         ELSE 5 * n >= 4 * d
        IN  /\ call.out = "High" <=> 2 * n >= 3 * d
            /\ call.out = "Medium" <=> (medium /\ 2 * n < 3 * d)
            /\ call.out = "Low" <=> ~medium

\* detect.py aggregates a pod list with 0.75 <= W < 0.8 to Low
C3_Witness ==
    /\ call.fn = "estimate_yield"
    /\ 4 * WNum(call.arg) >= 3 * WDen(call.arg)
    /\ 5 * WNum(call.arg) < 4 * WDen(call.arg)
    /\ call.out = "Low"

\* fullness = FullnessNum / FullnessDen, from the formula of the claim:
\* 0.7 * min(area/50000, 1) + 0.3 * (1 - |w/h - 1.5| / 2), w/h read as 1 when
\* h = 0, over the common denominator 2000000 * h
RatioNum(a) == IF a.height > 0 THEN a.width ELSE 1
RatioDen(a) == IF a.height > 0 THEN a.height ELSE 1
ScoredArea(a) == IF call.fn = "estimate_yield_fallback" THEN a.height * a.width
                                                        ELSE a.mask_area
FullnessNum(a) ==
    28 * Min(ScoredArea(a), 50000) * RatioDen(a)
    + 150000 * (4 * RatioDen(a) - Abs(2 * RatioNum(a) - 3 * RatioDen(a)))
FullnessDen(a) == 2000000 * RatioDen(a)

MorphologyScored == call.fn \in {"estimate_yield_from_morphology", "estimate_yield_fallback"}

\* C5: both morphology scorers return the fullness of the formula, with High
\* iff fullness > 0.7, Medium iff 0.4 < fullness <= 0.7, Low iff
\* fullness <= 0.4.
C5_MorphologyScore ==
    MorphologyScored =>
        LET a == call.arg
            f == FullnessNum(a)
            g == FullnessDen(a)
        IN  /\ call.out[2] = R(f, g)
            /\ call.out[1] = "High" <=> f > 7 * (g \div 10)
            /\ call.out[1] = "Medium" <=> /\ f > 4 * (g \div 10)
                                          /\ f <= 7 * (g \div 10)
            /\ call.out[1] = "Low" <=> f <= 4 * (g \div 10)

\* the fallback scorer meets a fullness of exactly 0.7 and answers Medium
C5_Witness ==
    /\ call.fn = "estimate_yield_fallback"
    /\ FullnessNum(call.arg) = 7 * (FullnessDen(call.arg) \div 10)
    /\ call.out = <<"Medium", <<7, 10>>>>

\* the detections a handler keeps, read off the detector's output: detect.py
\* keeps every one; yield_detect.py keeps a box whose truncated sides are both
\* at least 50 px and which lies at least partly inside the image
Kept(b) ==
    \/ variant = "detect.py"
    \/ /\ (b.x2 \div 2) - (b.x1 \div 2) >= 50
       /\ (b.y2 \div 2) - (b.y1 \div 2) >= 50
       /\ (b.x1 \div 2) < img.shape[2]
       /\ (b.y1 \div 2) < img.shape[1]

Retained == {k \in 1..Len(boxes) : Kept(boxes[k])}

\* C4: the learned scorer returns the morphology scorer's result for the crop
\* whenever the encoder or the ranking checkpoint is missing, the ranking
\* checkpoint lacks 'ranking_head_state_dict', loading raised, or the forward
\* pass raised; no score of a head that was never loaded is returned.
C4_FallbackOnAnyFailure ==
    variant = "yield_detect.py" =>
        \A i \in 1..Len(pod_detections) :
            LET pod == pod_detections[i]
                b == boxes[pod.pod_id + 1]
                crop == crop_shape(img.shape, b.x1 \div 2, b.y1 \div 2, b.x2 \div 2, b.y2 \div 2)
                degraded == \/ ~env.encoder
                            \/ ~env.ranking
                            \/ ~env.key
                            \/ env.raises # "no"
                            \/ scored_via[i].forward.raises
            IN  degraded => /\ scored_via[i].line # 205
                            /\ <<pod.yield_category, pod.yield_score>>
                                  = estimate_yield_fallback(crop)

\* C6: when a valid image leaves no pod to aggregate, no weighted mean is
\* computed and the response is HTTP 200 with success false, pod_count 0,
\* pods [] and overall_yield null.
C6_ZeroPods ==
    (pc \in {"Aggregated", "Responded"} /\ Retained = {}) =>
        /\ overall = NoOverall
        /\ pc = "Responded" =>
              /\ response.status = 200
              /\ response.body.success = FALSE
              /\ response.body.pod_count = 0
              /\ response.body.pods = <<>>
              /\ response.body.overall_yield = "None"

\* yield_detect.py answers "no detections" after discarding every box
C6_Witness ==
    /\ pc = "Responded"
    /\ variant = "yield_detect.py"
    /\ Len(boxes) >= 2
    /\ Retained = {}
    /\ response.body.success = FALSE

\* the order of the steps of a request
Follows(a, b) ==
    \/ a = "Startup" /\ b = "Listening"
    \/ a = "Listening" /\ b = "Received"
    \/ a = "Received" /\ b \in {"Decoded", "Errored"}
    \/ a = "Decoded" /\ b \in {"Detected", "Errored"}
    \/ a = "Detected" /\ b \in {"Detected", "PerPodScored", "Aggregated", "Errored"}
    \/ a = "PerPodScored" /\ b \in {"PerPodScored", "Aggregated", "Errored"}
    \/ a = "Aggregated" /\ b \in {"Responded", "Errored"}

\* C7: a request moves through Received, Decoded, Detected, PerPodScored*,
\* Aggregated, Responded in that order, or to Errored from any of them, and
\* nothing runs after a terminal state; every step advances (the step
\* changes or the loop index grows, and the index is bounded by the number
\* of boxes) and a request that is not in a terminal state can always take
\* a step, so it ends in Responded or Errored; the decoder and the detector
\* run at most once; an Errored request has a JSON error body and nothing
\* else, and no response exists before the terminal state.
C7_Lifecycle ==
    /\ [][Follows(pc, pc')]_vars
    /\ [][pc' # pc \/ idx' > idx]_vars
    /\ [](decoderCalls <= 1 /\ detectorCalls <= 1 /\ idx <= Len(boxes))
    /\ [](pc = "Errored" => (ErrorOnly /\ response.status \in {400, 500}))
    /\ [](pc = "Responded" => (~ErrorOnly /\ response.status = 200))
    /\ [](pc \notin Terminal => response = NoResponse)
    /\ [](pc \in Terminal \/ ENABLED Next)

\* a request that skipped a box, scored another and was answered
C7_Witness ==
    /\ pc = "Responded"
    /\ detectorCalls = 1
    /\ Len(pod_detections) >= 1
    /\ idx > Len(pod_detections)

\* C8: a response is either a full result (verdict, pod_count and one scored
\* pods[] entry per kept detection) or an error body and nothing else; pods
\* scored before a failure are not returned.
C8_NoPartialResults ==
    /\ pc = "Errored" => ErrorOnly
    /\ pc = "Responded" =>
          /\ {"overall_yield", "pod_count", "pods"} \subseteq DOMAIN response.body
          /\ "error" \notin DOMAIN response.body
          /\ response.body.pod_count = Cardinality(Retained)
          /\ Len(response.body.pods) = Cardinality(Retained)
          /\ \A i \in 1..Len(response.body.pods) :
                /\ response.body.pods[i].pod_id + 1 \in Retained
                /\ response.body.pods[i].yield_category \in {"Low", "Medium", "High"}
                /\ Len(response.body.pods[i].yield_score) = 2

\* scoring failed after an earlier pod had been scored
C8_Witness ==
    /\ pc = "Errored"
    /\ Len(pod_detections) >= 1
    /\ idx < Len(boxes)

\* C9: a request without an `image` field is answered with HTTP 400 and
\* {"error": "No image provided"}; neither the decoder nor the detector runs.
C9_MissingImage ==
    req = "absent" =>
        /\ decoderCalls = 0
        /\ detectorCalls = 0
        /\ pc \in {"Received", "Errored"}
        /\ pc = "Errored" =>
              response = [status |-> 400, body |-> [error |-> "No image provided"]]

\* the legacy route of detect.py answered a request without the field
C9_Witness ==
    /\ req = "absent"
    /\ route = "/api/detect"
    /\ variant = "detect.py"
    /\ pc = "Errored"

\* C10: a pod scored by the learned model with score s has score s and is Low
\* iff s < 0.33, Medium iff 0.33 <= s < 0.67, High iff s >= 0.67; the success
\* response reports these cut points as thresholds.
C10_LearnedCuts ==
    /\ \A i \in 1..Len(pod_detections) :
          scored_via[i].line = 205 =>
              LET s == scored_via[i].forward.score
                  c == pod_detections[i].yield_category
              IN  /\ pod_detections[i].yield_score = s
                  /\ c = "Low" <=> 100 * s[1] < 33 * s[2]
                  /\ c = "Medium" <=> (100 * s[1] >= 33 * s[2] /\ 100 * s[1] < 67 * s[2])
                  /\ c = "High" <=> 100 * s[1] >= 67 * s[2]
    /\ (pc = "Responded" /\ variant = "yield_detect.py" /\ response.body.success) =>
          /\ response.body.thresholds = [low |-> <<33, 100>>, medium |-> <<67, 100>>]
          /\ \A i \in 1..Len(response.body.pods) :
                scored_via[i].line = 205 =>
                    LET s == scored_via[i].forward.score
                        c == response.body.pods[i].yield_category
                        t == response.body.thresholds
                    IN  /\ c = "Low" <=> s[1] * t.low[2] < t.low[1] * s[2]
                        /\ c = "High" <=> s[1] * t.medium[2] >= t.medium[1] * s[2]

\* the response holds a pod the learned model scored exactly 0.33: Medium
C10_Witness ==
    /\ pc = "Responded"
    /\ variant = "yield_detect.py"
    /\ \E i \in 1..Len(pod_detections) :
          /\ scored_via[i].line = 205
          /\ scored_via[i].forward.score = <<33, 100>>
          /\ response.body.pods[i].yield_category = "Medium"

\* what the handler makes of box k of request f's own detector output
OwnKept(f, b) ==
    \/ variant = "detect.py"
    \/ /\ int(b.x2) - int(b.x1) >= 50
       /\ int(b.y2) - int(b.y1) >= 50
       /\ int(b.x1) < f.img.shape[2]
       /\ int(b.y1) < f.img.shape[1]

OwnPod(f, k) ==
    LET id == f.pod_detections[k].pod_id
        b == f.boxes[id + 1]
        r == estimate_yield_with_model(
                 crop_shape(f.img.shape, int(b.x1), int(b.y1), int(b.x2), int(b.y2)),
                 f.scored_via[k].forward)
    IN  IF variant = "detect.py"
        THEN pod_estimate_yield(id, b)
        ELSE [pod_id |-> id,
              bbox |-> <<R(int(b.x1), 1), R(int(b.y1), 1), R(int(b.x2), 1), R(int(b.y2), 1)>>,
              confidence |-> b.conf,
              yield_category |-> r.category,
              yield_score |-> r.score]

OwnOverall(f) ==
    IF f.pod_detections = <<>> THEN NoOverall
    ELSE IF variant = "detect.py"
    THEN [overall_yield |-> overall_yield_estimate_yield(f.pod_detections),
          avg_yield_score |-> R(0, 1)]
    ELSE [overall_yield |-> overall_yield_detect_and_estimate(f.pod_detections),
          avg_yield_score |-> avg_yield_score(f.pod_detections)]

OwnBody(f) ==
    IF variant = "detect.py"
    THEN response_estimate_yield(f.pod_detections, OwnOverall(f), f.img.shape)
    ELSE response_detect_and_estimate(f.pod_detections, OwnOverall(f), f.img.shape)

\* request f holds what it would hold had it been served alone: its pods are
\* the kept boxes of its own detector output up to its loop index, scored
\* from its own crop and forward pass; its verdict and its response are
\* computed from these pods only
Alone(f) ==
    /\ f.pc = "Listening" => f = Waiting
    /\ f.idx <= Len(f.boxes)
    /\ Len(f.scored_via) = Len(f.pod_detections)
    /\ Len(f.pod_detections) = Cardinality({k \in 1..f.idx : OwnKept(f, f.boxes[k])})
    /\ \A k \in 1..Len(f.pod_detections) :
          /\ f.pod_detections[k].pod_id + 1 \in 1..f.idx
          /\ OwnKept(f, f.boxes[f.pod_detections[k].pod_id + 1])
          /\ k > 1 => f.pod_detections[k].pod_id > f.pod_detections[k - 1].pod_id
          /\ f.pod_detections[k] = OwnPod(f, k)
    /\ f.overall = IF f.pc \in {"Aggregated", "Responded"} THEN OwnOverall(f) ELSE NoOverall
    /\ f.pc \notin Terminal => f.response = NoResponse
    /\ f.pc = "Responded" => f.response = [status |-> 200, body |-> OwnBody(f)]
    /\ f.pc = "Errored" =>
          /\ DOMAIN f.response.body = {"error"}
          /\ f.req = "absent" => f.response = no_image_provided
          /\ f.img.kind = "None" =>
                f.response = IF variant = "yield_detect.py" THEN invalid_image
                             ELSE internal_error("'NoneType' object has no attribute 'shape'")
          /\ (f.req # "absent" /\ f.img.kind # "None") => f.response.status = 500

\* C11: with any number of requests in flight and any interleaving of their
\* steps, no step of a request handler writes the process-wide state set at
\* start-up (the models, MODELS_LOADED), and every request, running or
\* waiting for the processor, holds exactly what it would hold when served
\* alone: no pod, score or verdict of another request is in its pod list,
\* its verdict or its response.
C11_Isolation ==
    /\ [][pc # "Startup" => UNCHANGED <<variant, env, MODELS_LOADED, head>>]_vars
    /\ [](pc # "Startup" => (Alone(frame) /\ \A f \in BagToSet(parked) : Alone(f)))

\* a request is answered with its pods while another request, with other
\* boxes, is waiting in the middle of its loop with a pod scored
C11_Witness ==
    /\ pc = "Responded"
    /\ response.body.success
    /\ \E f \in BagToSet(parked) :
          /\ f.pc = "PerPodScored"
          /\ f.boxes # boxes
          /\ f.pod_detections # <<>>
          /\ f.pod_detections # pod_detections

\* C12: in a success response of yield_detect.py, model_used is "trained_ml"
\* only if every pod of the response was scored by the learned ranking model
\* and "morphology" only if every pod was scored by the morphology scorer: a
\* response with a pod whose forward pass raised, which estimate_yield_fallback
\* scored, does not say "trained_ml".
C12_ModelUsedAccurate ==
    (pc = "Responded" /\ variant = "yield_detect.py" /\ response.body.success) =>
        /\ response.body.model_used = "trained_ml" =>
              \A i \in 1..Len(response.body.pods) : scored_via[i].line = 205
        /\ response.body.model_used = "morphology" =>
              \A i \in 1..Len(response.body.pods) : scored_via[i].line \in {184, 208}

\* Low < Medium < High
Rank(c) == CASE c = "Low" -> 1 [] c = "Medium" -> 2 [] c = "High" -> 3

PodRanks(pods) == {Rank(pods[i].yield_category) : i \in 1..Len(pods)}

\* C13: for a non-empty pod list with confidences in (0, 1], the
\* overall_yield of either endpoint (Medium cut 0.8 in detect.py, 0.75 in
\* yield_detect.py) is not above the highest and not below the lowest
\* category of the pods; when all pods share a category it is that category.
C13_OverallWithinPods ==
    Aggregated =>
        /\ \E lo \in PodRanks(call.arg) : lo <= Rank(call.out)
        /\ \E hi \in PodRanks(call.arg) : Rank(call.out) <= hi
        /\ Cardinality(PodRanks(call.arg)) = 1 => PodRanks(call.arg) = {Rank(call.out)}

\* detect.py aggregates pods that are all Medium, with different
\* confidences, to Medium
C13_Witness ==
    /\ call.fn = "estimate_yield"
    /\ Len(call.arg) >= 2
    /\ PodRanks(call.arg) = {2}
    /\ \E i, j \in 1..Len(call.arg) : call.arg[i].confidence # call.arg[j].confidence
    /\ call.out = "Medium"

\* the bbox a handler reports for a detector box: detect.py the floats as
\* they are, yield_detect.py the coordinates truncated to whole pixels
ReportedBox(b) ==
    IF variant = "detect.py"
    THEN <<R(b.x1, 2), R(b.y1, 2), R(b.x2, 2), R(b.y2, 2)>>
    ELSE <<R(b.x1 \div 2, 1), R(b.y1 \div 2, 1), R(b.x2 \div 2, 1), R(b.y2 \div 2, 1)>>

\* C14: in every success response of either yield endpoint pod_count is the
\* length of pods[]; every entry's pod_id is the index, in the detector's raw
\* output, of the box the entry reports (its bbox and its confidence); the
\* pod_ids are strictly increasing, hence distinct and in the detector's
\* order.  They need not start at 0 or be contiguous.
C14_PodOrder ==
    (pc = "Responded" /\ response.body.success) =>
        LET pods == response.body.pods
        IN  /\ response.body.pod_count = Len(pods)
            /\ \A k \in 1..Len(pods) :
                  /\ pods[k].pod_id \in 0..(Len(boxes) - 1)
                  /\ pods[k].bbox = ReportedBox(boxes[pods[k].pod_id + 1])
                  /\ pods[k].confidence = boxes[pods[k].pod_id + 1].conf
                  /\ \A j \in 1..(k - 1) : pods[j].pod_id < pods[k].pod_id

\* yield_detect.py dropped the first box: the only pod has pod_id 1
C14_Witness ==
    /\ pc = "Responded"
    /\ variant = "yield_detect.py"
    /\ response.body.success
    /\ response.body.pod_count = 1
    /\ response.body.pods[1].pod_id = 1

Elems(s) == {s[i] : i \in 1..Len(s)}

SplitDone == call.fn = "create_yolo_dataset" /\ call.out.at # "start"

====
